---------------------------- MODULE Spec2Model ----------------------------
(***************************************************************************)
(* A model of the crossover subsystem of stk's genetic algorithm           *)
(* (src/ga/crossover.py).                                                   *)
(*                                                                         *)
(*   Spec    Crossover.__init__ followed by any number of calls of         *)
(*           Crossover.__call__, one step per statement group of the loop. *)
(*   SpecBB  Crossover.bb_lk_exchange applied to two parent cages.         *)
(*                                                                         *)
(* Molecules are compared by structural identity, so a molecule is its     *)
(* identity (a number) and a Population is the set of its members.         *)
(***************************************************************************)
EXTENDS Integers, Sequences, FiniteSets, TLC

\* ------------------------------------------------------------------ bounds

\* Number of distinct molecules (identities) that exist.
NumMols == 2

\* Largest num_crossovers a Crossover instance is constructed with.
MaxCrossovers == 2

\* Largest number of entries of funcs.
MaxFuncs == 2

\* Number of distinct building blocks that exist.
NumBBs == 3

\* Largest count of a building block in a cage's bb_counter.
MaxCount == 2

\* Number of distinct topologies that exist.
NumTopologies == 2

Molecules == 1..NumMols

\* The selection stream is external and can be endless: a call that asks
\* islice for at most stop elements tells apart the lengths up to stop + 1.
MaxStream(stop) == stop + 1

\* ------------------------------------------------------- python helpers

\* Python's None (the default of weights).
None == <<>>

\* An unbound local name.
Unbound == [unbound |-> TRUE]

Min(a, b) == IF a <= b THEN a ELSE b

\* collections.Counter(): no keys.
EmptyCounter == [m \in {} |-> 0]

\* Counter.get(key, 0).
CounterGet(c, key) == IF key \in DOMAIN c THEN c[key] ELSE 0

\* Counter.update(mapping): adds the mapping's counts, creating the keys.
CounterUpdateMapping(c, mapping) ==
    [m \in (DOMAIN c) \cup (DOMAIN mapping) |->
        CounterGet(c, m) + CounterGet(mapping, m)]

\* Counter.update(iterable) for a tuple of two elements: one count per
\* occurrence.
CounterUpdateIterable(c, pair) ==
    CounterUpdateMapping(CounterUpdateMapping(c, [m \in {pair[1]} |-> 1]),
                         [m \in {pair[2]} |-> 1])

\* A choice that ignores p.
RandomChoiceIgnoresWeights(fs, p) == DOMAIN fs

\* The indices np.random.choice(funcs, p=weights) can return: every index
\* when p is None (uniform), else the indices of non-zero probability.
RandomChoice(fs, p) ==
    {k \in DOMAIN fs : IF p = None THEN TRUE ELSE p[k] > 0}

\* --------------------------------------------------- Population (external)

\* Population(...): no members.
NewPopulation == {}

\* Population.add_members(offspring).
AddMembers(pop, offspring) == pop \cup offspring

\* Population.__sub__: the members of pop not equal to a member of other.
PopulationSub(pop, other) == pop \ other

\* ------------------------------------------------------------------ state

VARIABLES
    funcs,           \* self.funcs: sequence of FunctionData [name, params]
    weights,         \* self.weights: None or a sequence of probabilities
    num_crossovers,  \* self.num_crossovers
    population,      \* the population argument of __call__
    counter_path,    \* the counter_path argument of __call__
    streamLen,       \* number of pairs population.select('crossover') yields
    pc,              \* position in __call__
    offspring_pop,   \* local offspring_pop
    counter,         \* local counter
    i,               \* enumerate index: pairs islice has yielded
    pulled,          \* elements taken from the selection stream
    exhausted,       \* the selection stream raised StopIteration
    parents,         \* local parents
    func_data,       \* local func_data
    func_idx,        \* index in funcs of func_data
    result,          \* the value __call__ returned
    init_args,       \* history: the arguments __init__ was called with
    call_args,       \* history: the arguments __call__ was called with
    choices,         \* history: number of np.random.choice calls
    called,          \* history: the last invocation [name, args, params]
    invocations,     \* history: number of crossover function invocations
    outcomes,        \* history: per drawn pair, TRUE iff its crossover returned
    collected,       \* history: union of the offspring of returning invocations
    drawn,           \* history: per molecule, occurrences in drawn pairs
    errors,          \* history: number of logger.error calls
    plots,           \* history: the calls of plot_counter
    bb_pc,           \* position in bb_lk_exchange
    macro_mol1,      \* first parent cage [bb_counter, topology]
    macro_mol2,      \* second parent cage
    orderable,       \* building blocks define "<"
    c1_lk, c1_bb,    \* locals of bb_lk_exchange
    c2_lk, c2_bb,
    topologies,      \* what the generator of line 231 has left to yield
    bb_offspring_pop, \* local offspring_pop of bb_lk_exchange
    constructed,     \* history: the Cage(...) constructions, in order
    bb_result        \* the value bb_lk_exchange returned

config == <<funcs, weights, num_crossovers>>
inputs == <<population, counter_path, streamLen>>
locals == <<offspring_pop, counter, i, pulled, exhausted, parents,
            func_data, func_idx>>
history == <<init_args, call_args, choices, called, invocations, outcomes,
             collected, drawn, errors, plots>>
callvars == <<config, inputs, pc, locals, result, history>>
bbvars == <<bb_pc, macro_mol1, macro_mol2, orderable, c1_lk, c1_bb, c2_lk,
            c2_bb, topologies, bb_offspring_pop, constructed, bb_result>>
vars == <<callvars, bbvars>>

\* ------------------------------------------------------ Crossover.__call__

\* FunctionData entries: the k-th has its own name and its own params.
FunctionData(k) == [name |-> k, params |-> [kwarg |-> k]]

FuncLists == {[k \in 1..n |-> FunctionData(k)] : n \in 1..MaxFuncs}

\* Probability lists for n functions, in units of 1/n: n entries that sum
\* to n/n = 1.
WeightLists(n) ==
    {w \in [1..n -> 0..n] :
        \E total \in [0..n -> 0..n] :
            /\ total[0] = 0
            /\ \A k \in 1..n : total[k] = total[k-1] + w[k]
            /\ total[n] = n}

\* No call of __call__ is in progress.
NoCall ==
    /\ population = {}
    /\ counter_path = ""
    /\ streamLen = 0
    /\ pc = "idle"
    /\ offspring_pop = Unbound
    /\ counter = Unbound
    /\ i = 0
    /\ pulled = 0
    /\ exhausted = FALSE
    /\ parents = Unbound
    /\ func_data = Unbound
    /\ func_idx = 0
    /\ result = Unbound
    /\ call_args = Unbound
    /\ choices = 0
    /\ called = Unbound
    /\ invocations = 0
    /\ outcomes = <<>>
    /\ collected = {}
    /\ drawn = [m \in Molecules |-> 0]
    /\ errors = 0
    /\ plots = <<>>

\* No call of bb_lk_exchange is in progress.
NoExchange ==
    /\ bb_pc = "idle"
    /\ macro_mol1 = Unbound
    /\ macro_mol2 = Unbound
    /\ orderable = TRUE
    /\ c1_lk = Unbound
    /\ c1_bb = Unbound
    /\ c2_lk = Unbound
    /\ c2_bb = Unbound
    /\ topologies = <<>>
    /\ bb_offspring_pop = Unbound
    /\ constructed = <<>>
    /\ bb_result = Unbound

\* Crossover.__init__(funcs, num_crossovers, weights=None)
Init ==
    /\ funcs \in FuncLists
    /\ weights \in {None} \cup WeightLists(Len(funcs))
    /\ num_crossovers \in 0..MaxCrossovers
    /\ init_args = [funcs |-> funcs, weights |-> weights,
                    num_crossovers |-> num_crossovers]
    /\ NoCall
    /\ NoExchange

\* __call__(population, counter_path) is entered; lines 120-124.  The
\* selection stream yields streamLen tuples (none from an empty population).
Call ==
    /\ pc = "idle"
    /\ \E pop \in SUBSET Molecules, path \in {"", "counter.png"},
          len \in 0..MaxStream(num_crossovers) :
        /\ (pop = {} => len = 0)
        /\ population' = pop
        /\ counter_path' = path
        /\ streamLen' = len
        /\ call_args' = [population |-> pop, counter_path |-> path]
    /\ offspring_pop' = NewPopulation
    /\ counter' = EmptyCounter
    /\ pc' = "loop"
    /\ UNCHANGED <<config, i, pulled, exhausted, parents, func_data,
                   func_idx, result, init_args, choices, called,
                   invocations, outcomes, collected, drawn, errors, plots,
                   bbvars>>

\* An islice that yields one element more than stop.
IsliceYieldsOneMore(yielded, stop) == yielded <= stop

\* islice(iterable, stop) yields another element only while it has yielded
\* fewer than stop (lines 123-124).
IsliceYields(yielded, stop) == yielded < stop

\* Lines 123-136, an element is yielded: islice takes the next tuple of
\* parents, members of the population, from the selection stream; the
\* counter counts them; func_data is drawn by np.random.choice(self.funcs,
\* p=self.weights); and func = getattr(self, func_data.name) is entered as
\* func(*parents, **func_data.params).
CrossParents ==
    /\ pc = "loop"
    /\ IsliceYields(i, num_crossovers)
    /\ pulled < streamLen
    /\ \E pair \in population \X population,
          k \in RandomChoice(funcs, weights) :
        /\ parents' = pair
        /\ counter' = CounterUpdateIterable(counter, pair)
        /\ drawn' = [m \in Molecules |->
                        drawn[m] + (IF pair[1] = m THEN 1 ELSE 0)
                                 + (IF pair[2] = m THEN 1 ELSE 0)]
        /\ func_data' = funcs[k]
        /\ func_idx' = k
        /\ called' = [name |-> func_data'.name, args |-> parents',
                      params |-> func_data'.params]
    /\ pulled' = pulled + 1
    /\ i' = i + 1
    /\ choices' = choices + 1
    /\ invocations' = invocations + 1
    /\ pc' = "try"
    /\ UNCHANGED <<config, inputs, offspring_pop, exhausted, result,
                   init_args, call_args, outcomes, collected, errors, plots,
                   bbvars>>

\* Lines 123-125: islice has yielded num_crossovers elements and stops without
\* asking the selection stream for another.
IsliceStop ==
    /\ pc = "loop"
    /\ ~IsliceYields(i, num_crossovers)
    /\ pc' = "dedup"
    /\ UNCHANGED <<config, inputs, locals, result, history, bbvars>>

\* Lines 123-125: islice asks the selection stream for an element and the
\* stream is exhausted.
StreamExhausted ==
    /\ pc = "loop"
    /\ IsliceYields(i, num_crossovers)
    /\ pulled >= streamLen
    /\ exhausted' = TRUE
    /\ pc' = "dedup"
    /\ UNCHANGED <<config, inputs, offspring_pop, counter, i, pulled,
                   parents, func_data, func_idx, result, history, bbvars>>

\* The offspring population is rebound to the last offspring.
ReplaceOffspring(pop, offspring) == offspring

\* Line 146: offspring_pop.add_members(offspring).
AddOffspring(pop, offspring) == AddMembers(pop, offspring)

\* Lines 136-146: the function returned a Population, offspring, of any
\* molecules; they are added to the offspring population.  (parents and
\* func_data are rebound before they are read again.)
CollectOffspring ==
    /\ pc = "try"
    /\ \E offspring \in SUBSET Molecules :
        /\ offspring_pop' = AddOffspring(offspring_pop, offspring)
        /\ collected' = collected \cup offspring
    /\ outcomes' = Append(outcomes, TRUE)
    /\ parents' = Unbound
    /\ func_data' = Unbound
    /\ func_idx' = 0
    /\ called' = Unbound
    /\ pc' = "loop"
    /\ UNCHANGED <<config, inputs, counter, i, pulled, exhausted, result,
                   init_args, call_args, choices, invocations, drawn,
                   errors, plots, bbvars>>

\* No handler: the exception leaves __call__.
ExceptionPropagates ==
    /\ pc = "try"
    /\ outcomes' = Append(outcomes, FALSE)
    /\ pc' = "raised"
    /\ UNCHANGED <<config, inputs, locals, result, init_args, call_args,
                   choices, called, invocations, collected, drawn, errors,
                   plots, bbvars>>

\* Lines 136, 148-156: the function raised an Exception; except Exception
\* logs the failure and the loop goes on.
ExceptHandler ==
    /\ pc = "try"
    /\ errors' = errors + 1
    /\ outcomes' = Append(outcomes, FALSE)
    /\ parents' = Unbound
    /\ func_data' = Unbound
    /\ func_idx' = 0
    /\ called' = Unbound
    /\ pc' = "loop"
    /\ UNCHANGED <<config, inputs, offspring_pop, counter, i, pulled,
                   exhausted, result, init_args, call_args, choices,
                   invocations, collected, drawn, plots, bbvars>>

\* The difference is not taken.
DeduplicateSkipped ==
    /\ pc = "dedup"
    /\ pc' = "plot"
    /\ UNCHANGED <<config, inputs, locals, result, history, bbvars>>

\* The operands are swapped: the offspring are removed from the population.
DeduplicateSwapped ==
    /\ pc = "dedup"
    /\ population' = PopulationSub(population, offspring_pop)
    /\ pc' = "plot"
    /\ UNCHANGED <<config, counter_path, streamLen, locals, result, history,
                   bbvars>>

\* Lines 158-160: offspring_pop -= population rebinds offspring_pop to the
\* difference; population is the right operand and is not written.
Deduplicate ==
    /\ pc = "dedup"
    /\ offspring_pop' = PopulationSub(offspring_pop, population)
    /\ population' = population
    /\ pc' = "plot"
    /\ UNCHANGED <<config, counter_path, streamLen, counter, i, pulled,
                   exhausted, parents, func_data, func_idx, result, history,
                   bbvars>>

\* The unselected members are not added.
WithoutUnselected(c, pop) == c

\* Lines 164-166: every member that is no key of the counter gets the
\* count 0.
WithUnselected(c, pop) ==
    CounterUpdateMapping(c, [m \in {x \in pop : x \notin DOMAIN c} |-> 0])

\* Lines 162-169: counter_path is not '': the counter is completed and
\* plotted, and offspring_pop is returned.
PlotAndReturn ==
    /\ pc = "plot"
    /\ counter_path # ""
    /\ counter' = WithUnselected(counter, population)
    /\ plots' = Append(plots, [counter |-> counter', path |-> counter_path])
    /\ result' = offspring_pop
    /\ pc' = "returned"
    /\ UNCHANGED <<config, inputs, offspring_pop, i, pulled, exhausted,
                   parents, func_data, func_idx, init_args, call_args,
                   choices, called, invocations, outcomes, collected, drawn,
                   errors, bbvars>>

\* Lines 162, 169: counter_path is '': nothing is plotted, and offspring_pop
\* is returned.
ReturnWithoutPlot ==
    /\ pc = "plot"
    /\ counter_path = ""
    /\ result' = offspring_pop
    /\ pc' = "returned"
    /\ UNCHANGED <<config, inputs, locals, history, bbvars>>

\* The caller has taken the returned Population; the frame of __call__ is
\* gone and the instance can be called again.
Finish ==
    /\ pc = "returned"
    /\ population' = {}
    /\ counter_path' = ""
    /\ streamLen' = 0
    /\ pc' = "idle"
    /\ offspring_pop' = Unbound
    /\ counter' = Unbound
    /\ i' = 0
    /\ pulled' = 0
    /\ exhausted' = FALSE
    /\ result' = Unbound
    /\ call_args' = Unbound
    /\ choices' = 0
    /\ invocations' = 0
    /\ outcomes' = <<>>
    /\ collected' = {}
    /\ drawn' = [m \in Molecules |-> 0]
    /\ errors' = 0
    /\ plots' = <<>>
    /\ UNCHANGED <<config, parents, func_data, func_idx, called, init_args,
                   bbvars>>

Next ==
    \/ Call
    \/ CrossParents
    \/ IsliceStop
    \/ StreamExhausted
    \/ CollectOffspring
    \/ ExceptHandler
    \/ Deduplicate
    \/ PlotAndReturn
    \/ ReturnWithoutPlot
    \/ Finish

Spec == Init /\ [][Next]_vars

\* ------------------------------------------------- claims about __call__

\* The number of drawn pairs whose crossover returned.
Successes == Cardinality({k \in DOMAIN outcomes : outcomes[k]})

\* The pairs the selection stream can give up to the limit of islice.
Drawable == Min(num_crossovers, streamLen)

\* C1: the Population returned by __call__ contains no molecule equal to a
\* member of the population passed in, whatever the population, the pairs
\* drawn, the functions chosen and the failures.
C1_NoParentInResult ==
    pc = "returned" => result \cap population = {}

\* A call returned offspring although some collected offspring equalled
\* members of the population and some crossover failed.
C1_Witness ==
    /\ pc = "returned"
    /\ collected \cap population # {}
    /\ result # {}
    /\ errors > 0

\* C2: a crossover function that raises on one pair does not end the call:
\* the exception does not leave __call__, the failure is logged, what was
\* collected before is still in the offspring population, the remaining pairs
\* are still drawn and crossed, and the call returns a Population.
C2_FailureIsolated ==
    /\ pc # "raised"
    /\ errors = Len(outcomes) - Successes
    /\ (pc \in {"loop", "try", "dedup"} => collected \subseteq offspring_pop)
    /\ (pc = "returned" =>
            /\ pulled = Drawable
            /\ invocations = Drawable
            /\ Len(outcomes) = Drawable
            /\ result \in SUBSET Molecules)

\* The first pair's crossover failed, the second pair was still crossed, and
\* its offspring were returned.
C2_Witness ==
    /\ pc = "returned"
    /\ outcomes = <<FALSE, TRUE>>
    /\ errors = 1
    /\ result # {}

\* C3: when the call returns without the selection stream having been
\* exhausted, exactly num_crossovers crossover invocations have succeeded.
C3_SuccessfulCrossovers ==
    (pc = "returned" /\ pulled < streamLen) => Successes = num_crossovers

C5_ResultIsOffspringMinusParents ==
    pc = "returned" => result = collected \ population

\* Two invocations returned and one part of their offspring was kept while
\* another part, equal to members of the population, was removed.
C5_Witness ==
    /\ pc = "returned"
    /\ Successes >= 2
    /\ collected \cap population # {}
    /\ result # {}
    /\ result # collected

\* C6: the function invoked is an entry of funcs, called with that entry's
\* own params; an entry whose weight is 0 is never invoked; and when weights
\* is None every entry of funcs can be chosen.
C6_FunctionFromFuncs ==
    /\ (pc = "try" =>
            /\ func_idx \in DOMAIN funcs
            /\ func_data = funcs[func_idx]
            /\ (weights # None => weights[func_idx] # 0)
            /\ called.name = funcs[func_idx].name
            /\ called.params = funcs[func_idx].params)
    /\ (weights = None => RandomChoice(funcs, weights) = DOMAIN funcs)

\* The second of two functions was invoked while the first had weight 0.
C6_Witness ==
    /\ pc = "try"
    /\ Len(funcs) = 2
    /\ weights # None
    /\ weights[1] = 0
    /\ func_idx = 2
    /\ called.name = FunctionData(2).name

\* C9: with counter_path '' plot_counter is never called; otherwise it is
\* called exactly once, after the loop and the deduplication, with a counter
\* that has a key for every member of the population, the count being the
\* number of times the member appeared in a drawn pair (0 if never).
C9_PlotCounter ==
    /\ (counter_path = "" => plots = <<>>)
    /\ Len(plots) <= 1
    /\ (plots # <<>> => pc = "returned")
    /\ (pc = "returned" /\ counter_path # "" =>
            /\ Len(plots) = 1
            /\ plots[1].path = counter_path
            /\ population \subseteq DOMAIN plots[1].counter
            /\ \A m \in DOMAIN plots[1].counter :
                    /\ m \in population
                    /\ plots[1].counter[m] = drawn[m])

\* The counter was plotted with a member that was never selected and a
\* member selected in a pair whose crossover failed.
C9_Witness ==
    /\ pc = "returned"
    /\ Len(plots) = 1
    /\ errors = Len(outcomes)
    /\ \E m \in population : plots[1].counter[m] = 0
    /\ \E m \in population : plots[1].counter[m] >= 2

\* C10: __call__ leaves its inputs unchanged: during and after the call the
\* population has the members it was passed with, and funcs, weights and
\* num_crossovers are what __init__ set, so every call starts from the same
\* configuration.
C10_InputsUnchanged ==
    /\ funcs = init_args.funcs
    /\ weights = init_args.weights
    /\ num_crossovers = init_args.num_crossovers
    /\ (pc # "idle" =>
            /\ population = call_args.population
            /\ counter_path = call_args.counter_path)

\* A call with a failed crossover returned after offspring equal to members
\* of the population were removed.
C10_Witness ==
    /\ pc = "returned"
    /\ errors > 0
    /\ collected \cap population # {}
    /\ population = call_args.population
    /\ result = {}

\* ------------------------------------------------ Crossover.bb_lk_exchange

\* Parent cages: bb_counter counts how often each building block occurs in
\* the cage (a cage is made of a building-block* and a linker, or of one
\* kind alone); the topology is one of NumTopologies values.
BuildingBlocks == 1..NumBBs

Topologies == 1..NumTopologies

BBCounters ==
    UNION {[d -> 1..MaxCount] :
              d \in {x \in SUBSET BuildingBlocks : Cardinality(x) \in {1, 2}}}

ParentCages == [bb_counter : BBCounters, topology : Topologies]

\* Cage(building_blocks, topology) (external constructor).
Cage(building_blocks, topology) ==
    [building_blocks |-> building_blocks, topology |-> topology]

\* zip(counter.values(), counter.keys()): the (count, key) tuples.
ZipValuesKeys(c) == {<<c[k], k>> : k \in DOMAIN c}

\* Tuple comparison a < b on (count, key) tuples: by count, then by key.
TupleLess(a, b) == a[1] < b[1] \/ (a[1] = b[1] /\ a[2] < b[2])

\* max(...) and min(...) of the tuples.
MaxTuple(tuples) ==
    CHOOSE t \in tuples : \A u \in tuples : u = t \/ TupleLess(u, t)

MinTuple(tuples) ==
    CHOOSE t \in tuples : \A u \in tuples : u = t \/ TupleLess(t, u)

\* Comparing the tuples compares two keys iff two tuples have equal counts.
ComparesKeys(c) ==
    \E j, k \in DOMAIN c : j # k /\ c[j] = c[k]

\* bb_lk_exchange(macro_mol1, macro_mol2) is entered.
InitBB ==
    /\ funcs = <<FunctionData(1)>>
    /\ weights = None
    /\ num_crossovers = 0
    /\ init_args = [funcs |-> funcs, weights |-> weights,
                    num_crossovers |-> num_crossovers]
    /\ NoCall
    /\ bb_pc = "start"
    /\ macro_mol1 \in ParentCages
    /\ macro_mol2 \in ParentCages
    /\ orderable \in BOOLEAN
    /\ c1_lk = Unbound
    /\ c1_bb = Unbound
    /\ c2_lk = Unbound
    /\ c2_bb = Unbound
    /\ topologies = <<>>
    /\ bb_offspring_pop = Unbound
    /\ constructed = <<>>
    /\ bb_result = Unbound

\* Line 231: a generator over the topologies of the two parents, in order.
TopologyGenerator(m1, m2) == <<m1.topology, m2.topology>>

\* Lines 217-231: the linker of each parent is the key of the largest
\* (count, key) tuple, its building-block* the key of the smallest.
SelectBlocks ==
    /\ bb_pc = "start"
    /\ (orderable
          \/ ~(ComparesKeys(macro_mol1.bb_counter)
                  \/ ComparesKeys(macro_mol2.bb_counter)))
    /\ c1_lk' = MaxTuple(ZipValuesKeys(macro_mol1.bb_counter))[2]
    /\ c1_bb' = MinTuple(ZipValuesKeys(macro_mol1.bb_counter))[2]
    /\ c2_lk' = MaxTuple(ZipValuesKeys(macro_mol2.bb_counter))[2]
    /\ c2_bb' = MinTuple(ZipValuesKeys(macro_mol2.bb_counter))[2]
    /\ bb_offspring_pop' = NewPopulation
    /\ topologies' = TopologyGenerator(macro_mol1, macro_mol2)
    /\ bb_pc' = "loop"
    /\ UNCHANGED <<callvars, macro_mol1, macro_mol2, orderable, constructed,
                   bb_result>>

\* Lines 217-225: two tuples have equal counts and the building blocks do
\* not define "<": the comparison raises TypeError.
SelectBlocksRaises ==
    /\ bb_pc = "start"
    /\ ~orderable
    /\ (ComparesKeys(macro_mol1.bb_counter)
          \/ ComparesKeys(macro_mol2.bb_counter))
    /\ bb_pc' = "raised"
    /\ UNCHANGED <<callvars, macro_mol1, macro_mol2, orderable, c1_lk, c1_bb,
                   c2_lk, c2_bb, topologies, bb_offspring_pop, constructed,
                   bb_result>>

\* The first offspring keeps the building-block* of its own parent.
Offspring1NotExchanged(topology) == Cage(<<c1_lk, c1_bb>>, topology)

\* Line 233.
Offspring1(topology) == Cage(<<c1_lk, c2_bb>>, topology)

\* Line 234.
Offspring2(topology) == Cage(<<c2_lk, c1_bb>>, topology)

\* Lines 232-235: the generator yields the next topology; the two offspring
\* are constructed with it and added.
BuildPair ==
    /\ bb_pc = "loop"
    /\ topologies # <<>>
    /\ LET topology == Head(topologies)
           offspring1 == Offspring1(topology)
           offspring2 == Offspring2(topology)
       IN  /\ constructed' = constructed \o <<offspring1, offspring2>>
           /\ bb_offspring_pop' =
                  AddMembers(bb_offspring_pop, {offspring1, offspring2})
    /\ topologies' = Tail(topologies)
    /\ UNCHANGED <<callvars, bb_pc, macro_mol1, macro_mol2, orderable, c1_lk,
                   c1_bb, c2_lk, c2_bb, bb_result>>

\* Line 237: the generator is exhausted; return offspring_pop.
ReturnOffspring ==
    /\ bb_pc = "loop"
    /\ topologies = <<>>
    /\ bb_result' = bb_offspring_pop
    /\ bb_pc' = "returned"
    /\ UNCHANGED <<callvars, macro_mol1, macro_mol2, orderable, c1_lk, c1_bb,
                   c2_lk, c2_bb, topologies, bb_offspring_pop, constructed>>

NextBB ==
    \/ SelectBlocks
    \/ SelectBlocksRaises
    \/ BuildPair
    \/ ReturnOffspring

SpecBB == InitBB /\ [][NextBB]_vars

\* ---------------------------------------------- claims about bb_lk_exchange

\* The entries of a parent's bb_counter with the largest count.
Linkers(m) ==
    {k \in DOMAIN m.bb_counter :
        \A j \in DOMAIN m.bb_counter : m.bb_counter[j] <= m.bb_counter[k]}

\* The entries of a parent's bb_counter with the smallest count.
BuildingBlockStars(m) ==
    {k \in DOMAIN m.bb_counter :
        \A j \in DOMAIN m.bb_counter : m.bb_counter[k] <= m.bb_counter[j]}

\* o joins the linker of parent p with the building-block* of parent q.
Joins(o, p, q) ==
    /\ o.building_blocks[1] \in Linkers(p)
    /\ o.building_blocks[2] \in BuildingBlockStars(q)

ParentTopologies == {macro_mol1.topology, macro_mol2.topology}

\* C7: bb1-lk1 + bb2-lk2 --> bb1-lk2 + bb2-lk1: every offspring joins the
\* linker (largest count) of one parent with the building-block* (smallest
\* count) of the other under a topology of one of the parents, and for each
\* such topology both cross combinations are produced.
C7_Exchange ==
    bb_pc = "returned" =>
        /\ \A o \in bb_result :
                /\ o.topology \in ParentTopologies
                /\ Len(o.building_blocks) = 2
                /\ (Joins(o, macro_mol1, macro_mol2)
                        \/ Joins(o, macro_mol2, macro_mol1))
        /\ \A t \in ParentTopologies :
                /\ \E o \in bb_result :
                        o.topology = t /\ Joins(o, macro_mol1, macro_mol2)
                /\ \E o \in bb_result :
                        o.topology = t /\ Joins(o, macro_mol2, macro_mol1)

\* Two parents of different topologies, each with a linker and a distinct
\* building-block*, gave four offspring.
C7_Witness ==
    /\ bb_pc = "returned"
    /\ macro_mol1.topology # macro_mol2.topology
    /\ ~ComparesKeys(macro_mol1.bb_counter)
    /\ ~ComparesKeys(macro_mol2.bb_counter)
    /\ c1_lk # c1_bb
    /\ c2_lk # c2_bb
    /\ c1_lk # c2_lk
    /\ c1_bb # c2_bb
    /\ Cardinality(bb_result) = 4

\* C8: the topologies of the parents are collected as a set: one pair of
\* offspring (2 cages) is constructed when both parents have the same
\* topology, and a pair for each topology (4 cages) only when they differ.
C8_PairPerDistinctTopology ==
    bb_pc = "returned" =>
        Len(constructed) = 2 * Cardinality(ParentTopologies)

=============================================================================
